---- MODULE Spec2Model ----
(***************************************************************************)
(* A model of discord-callsign-bot: the member-resolution pipeline         *)
(* (Handler::generate_member_list), the callsign parser, the QRZ name      *)
(* selection, the output formatter, the GitHub sink and the event          *)
(* handlers that trigger the pipeline.                                     *)
(*                                                                         *)
(* A Rust String is a sequence of one-character strings, so that byte-wise *)
(* comparison, concatenation and substring replacement are computed.       *)
(* An Option<T> is a sequence of length 0 (None) or 1 (Some(x)).           *)
(***************************************************************************)
EXTENDS Integers, Sequences, FiniteSets, TLC

----------------------------------------------------------------------------
(* Evaluation *)

\* F applied to the value of x: x is evaluated once, as a Rust `let` does,
\* however often F uses it
Then(x, F(_)) == CHOOSE r \in { F(v) : v \in {x} } : TRUE

----------------------------------------------------------------------------
(* Option<T> *)

None == <<>>

Some(x) == <<x>>

IsSome(o) == Len(o) = 1

Unwrap(o) == o[1]

\* Option::or_else
OrElse(o, alt) == IF IsSome(o) THEN o ELSE alt

\* Option::unwrap_or_else
UnwrapOr(o, dflt) == IF IsSome(o) THEN o[1] ELSE dflt

----------------------------------------------------------------------------
(* Characters and strings *)

\* The characters the model uses, in ascending byte order.
Ascii ==
    << "\n", " ", "#", "(", ")", "*", "-",
       "0", "1", "2", "3", "4", "5", "6", "7", "8", "9", ":",
       "A", "B", "C", "D", "E", "F", "G", "H", "I", "J", "K", "L", "M",
       "N", "O", "P", "Q", "R", "S", "T", "U", "V", "W", "X", "Y", "Z", "_",
       "a", "b", "c", "d", "e", "f", "g", "h", "i", "j", "k", "l", "m",
       "n", "o", "p", "q", "r", "s", "t", "u", "v", "w", "x", "y", "z" >>

\* the position of each character in that order
OrdTable == [c \in { Ascii[i] : i \in 1..Len(Ascii) } |->
                CHOOSE i \in 1..Len(Ascii) : Ascii[i] = c]

Ord(c) == OrdTable[c]

\* the characters from lo to hi
CharRange(lo, hi) == { Ascii[i] : i \in Ord(lo)..Ord(hi) }

\* [A-Z]
Upper == CharRange("A", "Z")

\* [0-9]
Digit == CharRange("0", "9")

\* \w of the regex crate, restricted to the model's characters
WordChar == Upper \cup Digit \cup CharRange("a", "z") \cup {"_"}

IsUpper(c) == c \in Upper

IsDigit(c) == c \in Digit

IsWordChar(c) == c \in WordChar

\* str::cmp: -1, 0 or 1 for a < b, a = b, a > b (lexicographic on bytes)
RECURSIVE StrCmp(_, _)
StrCmp(a, b) ==
    IF a = <<>> /\ b = <<>> THEN 0
    ELSE IF a = <<>> THEN -1
    ELSE IF b = <<>> THEN 1
    ELSE IF Ord(Head(a)) < Ord(Head(b)) THEN -1
    ELSE IF Ord(Head(a)) > Ord(Head(b)) THEN 1
    ELSE StrCmp(Tail(a), Tail(b))

StartsWithAt(s, i, pat) ==
    /\ i + Len(pat) - 1 <= Len(s)
    /\ \A k \in 1..Len(pat) : s[i + k - 1] = pat[k]

\* str::replace: every non-overlapping occurrence of from, left to right
RECURSIVE ReplaceFrom(_, _, _, _)
ReplaceFrom(s, i, from, to) ==
    IF i > Len(s) THEN <<>>
    ELSE IF StartsWithAt(s, i, from)
         THEN to \o ReplaceFrom(s, i + Len(from), from, to)
         ELSE <<s[i]>> \o ReplaceFrom(s, i + 1, from, to)

Replace(s, from, to) ==
    IF from = <<>> THEN s ELSE Then(s, LAMBDA v : ReplaceFrom(v, 1, from, to))

RECURSIVE TrimStart(_)
TrimStart(s) ==
    IF s # <<>> /\ Head(s) \in {" ", "\n"} THEN TrimStart(Tail(s)) ELSE s

RECURSIVE TrimEnd(_)
TrimEnd(s) ==
    IF s # <<>> /\ s[Len(s)] \in {" ", "\n"}
    THEN TrimEnd(SubSeq(s, 1, Len(s) - 1)) ELSE s

\* str::trim
Trim(s) == Then(s, LAMBDA v : Then(TrimStart(v), TrimEnd))

----------------------------------------------------------------------------
(* parser.rs: CallsignParser *)

\* \b at position i of s (between s[i-1] and s[i])
WordBoundary(s, i) ==
    LET before == i > 1 /\ i - 1 <= Len(s) /\ IsWordChar(s[i - 1])
        after  == i >= 1 /\ i <= Len(s) /\ IsWordChar(s[i])
    IN  before # after

\* [A-Z0-9]{p}[0-9][A-Z]{q} at position i, with \b on both sides
ShapeAt(s, i, p, q) ==
    /\ i + p + q <= Len(s)
    /\ WordBoundary(s, i)
    /\ \A k \in i..(i + p - 1) : IsUpper(s[k]) \/ IsDigit(s[k])
    /\ IsDigit(s[i + p])
    /\ \A k \in (i + p + 1)..(i + p + q) : IsUpper(s[k])
    /\ WordBoundary(s, i + p + q + 1)

\* the quantifiers are greedy: the longer prefix, then the longer suffix, first
Shapes == << <<2, 3>>, <<2, 2>>, <<2, 1>>, <<1, 3>>, <<1, 2>>, <<1, 1>> >>

\* length of the match of callsign_regex starting at i, 0 when there is none
MatchLenAt(s, i) ==
    Then({ n \in 1..Len(Shapes) : ShapeAt(s, i, Shapes[n][1], Shapes[n][2]) },
         LAMBDA hits :
           IF hits = {} THEN 0
           ELSE Then(CHOOSE m \in hits : \A o \in hits : m <= o,
                     LAMBDA n : Shapes[n][1] + 1 + Shapes[n][2]))

\* Regex::find: the leftmost match, as Some(<<start, length>>)
callsign_regex_find(s) ==
    Then([i \in 1..Len(s) |-> MatchLenAt(s, i)], LAMBDA len :
      Then({ i \in 1..Len(s) : len[i] > 0 }, LAMBDA starts :
        IF starts = {} THEN None
        ELSE Then(CHOOSE m \in starts : \A o \in starts : m <= o,
                  LAMBDA i : Some(<<i, len[i]>>))))

\* "Remove common separators and punctuation"
StripSeparators(name) ==
    Trim(Replace(Replace(Replace(Replace(Replace(name,
            <<" ", "-", " ">>, <<" ">>),
            <<" ", "-">>, <<>>),
            <<"-", " ">>, <<>>),
            <<"(">>, <<>>),
            <<")">>, <<>>))

\* parse, once the regex has matched: m is <<start, length>>
ParseMatch(display_name, m) ==
    Then(SubSeq(display_name, m[1], m[1] + m[2] - 1), LAMBDA callsign :
      Then(StripSeparators(Replace(display_name, callsign, <<>>)), LAMBDA name :
        [callsign |-> callsign,
         name |-> IF name = <<>> THEN callsign ELSE name]))

\* CallsignParser::parse
parse(display_name) ==
    Then(callsign_regex_find(display_name), LAMBDA m :
      IF IsSome(m) THEN Some(ParseMatch(display_name, Unwrap(m))) ELSE None)

\* CallsignParser::is_callsign
is_callsign(text) == IsSome(callsign_regex_find(text))

----------------------------------------------------------------------------
(* qrz.rs: QrzClient::get_display_name *)

\* get_display_name with the first name tried before the nickname
get_display_name_fname_first(info) ==
    IF IsSome(info.fname) /\ info.fname[1] # <<>> THEN Some(info.fname[1])
    ELSE IF IsSome(info.nickname) /\ info.nickname[1] # <<>> THEN Some(info.nickname[1])
    ELSE IF IsSome(info.name) /\ info.name[1] # <<>> THEN Some(info.name[1])
    ELSE None

get_display_name(info) ==
    IF IsSome(info.nickname) /\ info.nickname[1] # <<>> THEN Some(info.nickname[1])
    ELSE IF IsSome(info.fname) /\ info.fname[1] # <<>> THEN Some(info.fname[1])
    ELSE IF IsSome(info.name) /\ info.name[1] # <<>> THEN Some(info.name[1])
    ELSE None

----------------------------------------------------------------------------
(* output.rs *)

\* OutputEntry
OutputEntry(callsign, name, suffix, emoji_separator) ==
    [callsign |-> callsign, name |-> name, suffix |-> suffix,
     emoji_separator |-> emoji_separator]

\* format!("# TITLE: {}\n", title_text)
TitleLine(title_text) ==
    <<"#", " ", "T", "I", "T", "L", "E", ":", " ">> \o title_text \o <<"\n">>

\* the line with the empty suffix's separating space left out
EntryLineNoTrailingSpace(entry) ==
    entry.callsign \o <<" ">> \o entry.emoji_separator \o <<" ">> \o entry.name
        \o (IF entry.suffix = <<>> THEN <<>> ELSE <<" ">> \o entry.suffix) \o <<"\n">>

\* format!("{} {} {} {}\n", callsign, emoji_separator, name, suffix)
EntryLine(entry) ==
    entry.callsign \o <<" ">> \o entry.emoji_separator \o <<" ">>
        \o entry.name \o <<" ">> \o entry.suffix \o <<"\n">>

\* one insertion of a stable sort under |a, b| a.callsign.cmp(&b.callsign):
\* e goes after every element that does not compare greater than it
RECURSIVE InsertSorted(_, _)
InsertSorted(sorted, e) ==
    IF sorted = <<>> THEN <<e>>
    ELSE IF StrCmp(Head(sorted).callsign, e.callsign) = 1
         THEN <<e>> \o sorted
         ELSE <<Head(sorted)>> \o InsertSorted(Tail(sorted), e)

\* the entries left in their input order
SortSkipped(entries) == entries

\* sorted_entries.sort_by(...): slice::sort_by is a stable sort
RECURSIVE SortByCallsign(_)
SortByCallsign(entries) ==
    IF entries = <<>> THEN <<>>
    ELSE Then(SortByCallsign(SubSeq(entries, 1, Len(entries) - 1)),
              LAMBDA sorted : InsertSorted(sorted, entries[Len(entries)]))

\* the for loop pushing one line per entry
RECURSIVE PushLines(_, _)
PushLines(output, entries) ==
    IF entries = <<>> THEN output
    ELSE PushLines(output \o EntryLine(Head(entries)), Tail(entries))

\* generate_output_content(entries, title)
generate_output_content(entries, title) ==
    LET output == IF IsSome(title) THEN TitleLine(Unwrap(title)) ELSE <<>>
    IN  PushLines(output, SortByCallsign(entries))

----------------------------------------------------------------------------
(* main.rs: the deduplication loop of generate_member_list *)

\* the loop body keeping the latest entry of a callsign in place of the first
DedupeStepKeepLast(acc, entry) ==
    IF entry.callsign \notin acc.seen_callsigns
    THEN [seen_callsigns |-> acc.seen_callsigns \cup {entry.callsign},
          unique_entries |-> Append(acc.unique_entries, entry)]
    ELSE [seen_callsigns |-> acc.seen_callsigns,
          unique_entries |-> [k \in 1..Len(acc.unique_entries) |->
                                IF acc.unique_entries[k].callsign = entry.callsign
                                THEN entry ELSE acc.unique_entries[k]]]

\* the loop body: seen_callsigns (the HashMap's keys) and unique_entries
DedupeStep(acc, entry) ==
    IF entry.callsign \notin acc.seen_callsigns
    THEN [seen_callsigns |-> acc.seen_callsigns \cup {entry.callsign},
          unique_entries |-> Append(acc.unique_entries, entry)]
    ELSE acc

RECURSIVE DedupeLoop(_, _)
DedupeLoop(acc, entries) ==
    IF entries = <<>> THEN acc
    ELSE Then(DedupeStep(acc, Head(entries)),
              LAMBDA next : DedupeLoop(next, Tail(entries)))

Dedupe(entries) ==
    DedupeLoop([seen_callsigns |-> {}, unique_entries |-> <<>>], entries)

\* the count the info! line reports as "filtered {} duplicates"
FilteredDuplicates(d) == Cardinality(d.seen_callsigns) - Len(d.unique_entries)

----------------------------------------------------------------------------
(* Bounds *)

\* members in one snapshot of the pipeline specification
MaxMembers == 3

\* events the gateway delivers, the ready event included
MaxEvents == 3

\* entries in an input list of the function specification
MaxEntries == 3

\* the words of a text given to parse
MaxWords == 3

----------------------------------------------------------------------------
(* Strings of the model *)

W6JSV == <<"W", "6", "J", "S", "V">>

KI7QCF == <<"K", "I", "7", "Q", "C", "F">>

AA1AA == <<"A", "A", "1", "A", "A">>

UNKNOWN == <<"U", "N", "K", "N", "O", "W", "N">>

\* the account names, nicknames and global display names of the roster
StrBot == <<"b", "o", "t">>

StrW6JSVDashJay == W6JSV \o <<" ", "-", " ", "J", "a", "y">>

StrJay == <<"j", "a", "y">>

StrAl == <<"A", "l">>

StrAlKI7QCF == <<"A", "l", " ">> \o KI7QCF

StrBob == <<"b", "o", "b">>

StrJj == <<"j", "j">>

StrAA1AAParens == <<"A", "n", "n", " ", "(">> \o AA1AA \o <<")">>

StrAnn == <<"a", "n", "n">>

\* configuration values
StrSuffix == <<"7", "3">>

StrEmoji == <<"*">>

StrTitle == <<"H", "a", "m", "s">>

\* override values
StrOvCallsign == AA1AA

StrOvName == <<"O", "v">>

StrOvSuffix == <<>>

StrOvEmoji == <<"#">>

\* QRZ record values
Jay == <<"J", "a", "y">>

StrSmith == <<"S", "m", "i", "t", "h">>

StrJohn == <<"J", "o", "h", "n">>

----------------------------------------------------------------------------
(* The guild's members, as the Discord API returns them *)

Member(id, nick, global_name, name) ==
    [id |-> id, nick |-> nick, global_name |-> global_name, name |-> name]

\* ctx.cache.current_user().id
bot_user_id == 0

\* Every member the model knows: the bot, a member whose nickname parses, one
\* whose global name alone parses, one with a nickname and no callsign, one
\* whose account name alone parses (to the callsign of member 1), and one whose
\* nickname and global name both parse, to different callsigns.
Roster ==
    [id \in 0..5 |->
        CASE id = 0 -> Member(0, None, None, StrBot)
          [] id = 1 -> Member(1, Some(StrW6JSVDashJay), None, StrJay)
          [] id = 2 -> Member(2, Some(StrAl), Some(StrAlKI7QCF), StrAl)
          [] id = 3 -> Member(3, Some(StrJj), None, StrBob)
          [] id = 4 -> Member(4, None, Some(StrJj), W6JSV)
          [] id = 5 -> Member(5, Some(StrAA1AAParens), Some(KI7QCF), StrAnn)]

MemberIds == DOMAIN Roster

----------------------------------------------------------------------------
(* config: Override, and the guild's output settings *)

Override(callsign, name, suffix, emoji) ==
    [callsign |-> callsign, name |-> name, suffix |-> suffix, emoji |-> emoji]

\* every combination of present and absent override fields
OverrideRules ==
    { Override(c, n, s, e) :
        c \in {None, Some(StrOvCallsign)}, n \in {None, Some(StrOvName)},
        s \in {None, Some(StrOvSuffix)}, e \in {None, Some(StrOvEmoji)} }

\* get_override: overrides.get(discord_id)
get_override(overrides, user_id) ==
    IF user_id \in DOMAIN overrides THEN Some(overrides[user_id]) ELSE None

----------------------------------------------------------------------------
(* qrz.rs: what lookup_callsign can return *)

CallsignInfo(fname, name, nickname) ==
    [fname |-> fname, name |-> name, nickname |-> nickname]

LookupErr == [ok |-> FALSE, info |-> CallsignInfo(None, None, None)]

LookupOk(info) == [ok |-> TRUE, info |-> info]

\* an error, a record with no usable name, a record with a first name
LookupResults ==
    { LookupErr,
      LookupOk(CallsignInfo(None, None, Some(<<>>))),
      LookupOk(CallsignInfo(Some(StrJohn), None, Some(<<>>))) }

----------------------------------------------------------------------------
(* main.rs: generate_member_list, the per-member resolution *)

\* the filter_map over name_fields: one (parsed, name) pair per present field
RECURSIVE FilterMapFields(_)
FilterMapFields(name_fields) ==
    IF name_fields = <<>> THEN <<>>
    ELSE IF IsSome(Head(name_fields))
         THEN << [parsed |-> parse(Unwrap(Head(name_fields))),
                  display_name |-> Unwrap(Head(name_fields))] >>
              \o FilterMapFields(Tail(name_fields))
         ELSE FilterMapFields(Tail(name_fields))

\* Iterator::find(|(parsed, _)| parsed.is_some())
RECURSIVE FindParsed(_)
FindParsed(pairs) ==
    IF pairs = <<>> THEN None
    ELSE IF IsSome(Head(pairs).parsed) THEN Some(Head(pairs))
    ELSE FindParsed(Tail(pairs))

\* the name fields with the global name tried before the nickname
NameFieldsGlobalFirst(member) ==
    <<member.global_name, member.nick, Some(member.name)>>

\* Priority: nick -> global_name -> user.name
NameFields(member) == <<member.nick, member.global_name, Some(member.name)>>

\* (parsed, display_name) of a member
ResolveNameFields(member) ==
    Then(FindParsed(FilterMapFields(NameFields(member))), LAMBDA found :
      UnwrapOr(found, [parsed |-> None, display_name |-> member.name]))

\* the resolution of each member of the roster, computed once
Resolved == [id \in MemberIds |-> ResolveNameFields(Roster[id])]

\* the override branch with the parsed callsign taken before the override's
OverrideEntryParsedFirst(override_config, parsed, display_name, output) ==
    [callsign |-> IF IsSome(parsed) THEN parsed[1].callsign
                  ELSE UnwrapOr(override_config.callsign, UNKNOWN),
     name |-> UnwrapOr(OrElse(override_config.name,
                  IF IsSome(parsed) THEN Some(parsed[1].name) ELSE None),
                  display_name),
     suffix |-> UnwrapOr(override_config.suffix, output.default_suffix),
     emoji_separator |-> UnwrapOr(override_config.emoji, output.emoji_separator)]

\* the branch taken when the member has an override
OverrideEntry(override_config, parsed, display_name, output) ==
    LET callsign == UnwrapOr(OrElse(override_config.callsign,
                        IF IsSome(parsed) THEN Some(parsed[1].callsign) ELSE None),
                        UNKNOWN)
        name == UnwrapOr(OrElse(override_config.name,
                        IF IsSome(parsed) THEN Some(parsed[1].name) ELSE None),
                        display_name)
        suffix == UnwrapOr(override_config.suffix, output.default_suffix)
        emoji_separator == UnwrapOr(override_config.emoji, output.emoji_separator)
    IN  OutputEntry(callsign, name, suffix, emoji_separator)

\* whether the member's iteration calls qrz_client.lookup_callsign
NeedsLookup(member, guild_config, qrz_client) ==
    /\ member.id # bot_user_id
    /\ ~IsSome(get_override(guild_config.overrides, member.id))
    /\ IsSome(Resolved[member.id].parsed)
    /\ IsSome(qrz_client)

\* the name after the lookup, with a failed lookup clearing it
NameAfterLookupErrEmpty(name, lookup) ==
    IF lookup.ok
    THEN UnwrapOr(get_display_name(lookup.info), name)
    ELSE <<>>

\* the name after the match on the lookup's result
NameAfterLookup(name, lookup) ==
    IF lookup.ok
    THEN UnwrapOr(get_display_name(lookup.info), name)
    ELSE name

\* the branch taken when the member has no override and a parsed callsign
ParsedEntry(parsed, output, qrz_client, lookup) ==
    LET name == IF IsSome(qrz_client)
                THEN NameAfterLookup(parsed.name, lookup)
                ELSE parsed.name
    IN  OutputEntry(parsed.callsign, name, output.default_suffix,
                    output.emoji_separator)

\* what one iteration did: the (parsed, display_name) it computed, the entries
\* it pushed and the callsigns it passed to lookup_callsign
Iterated(parsed, display_name, pushed, looked_up) ==
    [parsed |-> parsed, display_name |-> display_name, pushed |-> pushed,
     looked_up |-> looked_up]

\* the iteration with an entry of callsign "UNKNOWN" pushed for a member that
\* has no override and no parsed callsign
ProcessMemberUnknownEntry(member, guild_config, qrz_client, lookup) ==
    Then(Resolved[member.id], LAMBDA r :
      Then(get_override(guild_config.overrides, member.id), LAMBDA ov :
        IF member.id = bot_user_id
        THEN Iterated(None, <<>>, <<>>, <<>>)
        ELSE IF IsSome(ov)
        THEN Iterated(r.parsed, r.display_name,
                      << OverrideEntry(Unwrap(ov), r.parsed, r.display_name,
                                       guild_config.output) >>,
                      <<>>)
        ELSE IF IsSome(r.parsed)
        THEN Iterated(r.parsed, r.display_name,
                      << ParsedEntry(Unwrap(r.parsed), guild_config.output,
                                     qrz_client, lookup) >>,
                      IF IsSome(qrz_client)
                      THEN << Unwrap(r.parsed).callsign >> ELSE <<>>)
        ELSE Iterated(r.parsed, r.display_name,
                      << OutputEntry(UNKNOWN, r.display_name,
                                     guild_config.output.default_suffix,
                                     guild_config.output.emoji_separator) >>,
                      <<>>)))

\* the iteration with the lookup made in the override branch too
ProcessMemberLookupOverride(member, guild_config, qrz_client, lookup) ==
    Then(Resolved[member.id], LAMBDA r :
      Then(get_override(guild_config.overrides, member.id), LAMBDA ov :
        IF member.id = bot_user_id
        THEN Iterated(None, <<>>, <<>>, <<>>)
        ELSE IF IsSome(ov)
        THEN Iterated(r.parsed, r.display_name,
                      << OverrideEntry(Unwrap(ov), r.parsed, r.display_name,
                                       guild_config.output) >>,
                      IF IsSome(qrz_client) /\ IsSome(r.parsed)
                      THEN << Unwrap(r.parsed).callsign >> ELSE <<>>)
        ELSE IF IsSome(r.parsed)
        THEN Iterated(r.parsed, r.display_name,
                      << ParsedEntry(Unwrap(r.parsed), guild_config.output,
                                     qrz_client, lookup) >>,
                      IF IsSome(qrz_client)
                      THEN << Unwrap(r.parsed).callsign >> ELSE <<>>)
        ELSE Iterated(r.parsed, r.display_name, <<>>, <<>>)))

\* the iteration with a member whose override sets no name enriched from the
\* directory like a member without override
ProcessMemberEnrichOverride(member, guild_config, qrz_client, lookup) ==
    Then(Resolved[member.id], LAMBDA r :
      Then(get_override(guild_config.overrides, member.id), LAMBDA ov :
        IF member.id = bot_user_id
        THEN Iterated(None, <<>>, <<>>, <<>>)
        ELSE IF IsSome(ov)
        THEN Iterated(r.parsed, r.display_name,
                      << OverrideEntry(Unwrap(ov), r.parsed, r.display_name,
                                       guild_config.output) >>,
                      IF IsSome(qrz_client) /\ IsSome(r.parsed)
                         /\ ~IsSome(Unwrap(ov).name)
                      THEN << Unwrap(r.parsed).callsign >> ELSE <<>>)
        ELSE IF IsSome(r.parsed)
        THEN Iterated(r.parsed, r.display_name,
                      << ParsedEntry(Unwrap(r.parsed), guild_config.output,
                                     qrz_client, lookup) >>,
                      IF IsSome(qrz_client)
                      THEN << Unwrap(r.parsed).callsign >> ELSE <<>>)
        ELSE Iterated(r.parsed, r.display_name, <<>>, <<>>)))

\* One iteration of `for member in members`. lookup is the result the QRZ
\* service gives if it is asked.
ProcessMember(member, guild_config, qrz_client, lookup) ==
    Then(Resolved[member.id], LAMBDA r :
      Then(get_override(guild_config.overrides, member.id), LAMBDA ov :
        IF member.id = bot_user_id
        THEN Iterated(None, <<>>, <<>>, <<>>)
        ELSE IF IsSome(ov)
        THEN Iterated(r.parsed, r.display_name,
                      << OverrideEntry(Unwrap(ov), r.parsed, r.display_name,
                                       guild_config.output) >>,
                      <<>>)
        ELSE IF IsSome(r.parsed)
        THEN Iterated(r.parsed, r.display_name,
                      << ParsedEntry(Unwrap(r.parsed), guild_config.output,
                                     qrz_client, lookup) >>,
                      IF IsSome(qrz_client)
                      THEN << Unwrap(r.parsed).callsign >> ELSE <<>>)
        ELSE Iterated(r.parsed, r.display_name, <<>>, <<>>)))

----------------------------------------------------------------------------
(* State *)

VARIABLES
    guild_config,   \* the configured guild: output settings and overrides
    qrz_client,     \* Handler.qrz_client: Option<Arc<QrzClient>>
    guild,          \* the ids of the guild's members, in the API's order
    runs,           \* one generate_member_list call per delivered event
    nEvents,        \* events delivered so far
    file,           \* the sink: the file GitHub holds, None before the first commit
    exited,         \* std::process::exit(1) was called
    fetched,        \* the snapshot the latest guild_id.members(...) call returned
    fn_pc,          \* the function specification: position
    fn_entries,     \* its input list
    fn_title,       \* its title
    fn_dedupe,      \* the deduplication's result and reported count
    fn_output,      \* generate_output_content's result
    fn_info,        \* the directory record given to get_display_name
    fn_name,        \* get_display_name's result and the entry's name after it
    fn_text,        \* the text given to parse
    fn_parsed       \* parse's result

vars == << guild_config, qrz_client, guild, runs, nEvents, file, exited, fetched,
           fn_pc, fn_entries, fn_title, fn_dedupe, fn_output,
           fn_info, fn_name, fn_text, fn_parsed >>

botVars == << guild_config, qrz_client, guild, runs, nEvents, file, exited, fetched >>

fnVars == << fn_pc, fn_entries, fn_title, fn_dedupe, fn_output,
            fn_info, fn_name, fn_text, fn_parsed >>

RunIds == 1..MaxEvents

\* what the latest iteration of the member loop did: the member, what
\* ProcessMember reports of it, and whether the lookup it made succeeded
Iteration(id, res, lookup_ok) ==
    [id |-> id, parsed |-> res.parsed, display_name |-> res.display_name,
     pushed |-> res.pushed, looked_up |-> res.looked_up, lookup_ok |-> lookup_ok]

NoIteration == Iteration(-1, Iterated(None, <<>>, <<>>, <<>>), FALSE)

\* a call of generate_member_list that has not been made
IdleRun ==
    [pc |-> "idle", trigger |-> "none", members |-> <<>>, i |-> 1,
     entries |-> <<>>, owners |-> <<>>, last |-> NoIteration,
     unique_entries |-> <<>>, filtered |-> 0, content |-> <<>>, sha |-> None,
     result |-> "none"]

\* the call a handler makes: about to fetch the members
StartedRun(trigger) == [IdleRun EXCEPT !.pc = "fetch", !.trigger = trigger]

\* generate_member_list has returned result to its handler; its locals are gone
Returned(run, result) ==
    [IdleRun EXCEPT !.pc = "returned", !.trigger = run.trigger, !.result = result]

ActivePcs == {"fetch", "members", "render", "get_sha", "put"}

\* sequences over S of length at most n
RECURSIVE SeqsUpTo(_, _)
SeqsUpTo(S, n) ==
    IF n = 0 THEN { <<>> }
    ELSE LET shorter == SeqsUpTo(S, n - 1)
         IN  shorter \cup { Append(q, x) : q \in { t \in shorter : Len(t) = n - 1 }, x \in S }

Distinct(q) == \A a, b \in 1..Len(q) : a # b => q[a] # q[b]

Range(q) == { q[k] : k \in 1..Len(q) }

Output(default_suffix, emoji_separator, title) ==
    [default_suffix |-> default_suffix, emoji_separator |-> emoji_separator,
     title |-> title]

FnOff ==
    /\ fn_pc = "off"
    /\ fn_entries = <<>>
    /\ fn_title = None
    /\ fn_dedupe = [seen_callsigns |-> {}, unique_entries |-> <<>>, filtered |-> 0]
    /\ fn_output = <<>>
    /\ fn_info = CallsignInfo(None, None, None)
    /\ fn_name = [chosen |-> None, name |-> <<>>]
    /\ fn_text = <<>>
    /\ fn_parsed = None

----------------------------------------------------------------------------
(* main.rs: generate_member_list, step by step *)

\* guild_id.members(&ctx.http, None, None).await, and its map_err(...)?
FetchMembers(r) ==
    /\ ~exited
    /\ runs[r].pc = "fetch"
    /\ \/ /\ runs' = [runs EXCEPT ![r].pc = "members", ![r].members = guild, ![r].i = 1]
          /\ fetched' = Some(guild)
       \/ /\ runs' = [runs EXCEPT ![r] = Returned(runs[r], "Err")]
          /\ fetched' = fetched
    /\ UNCHANGED << guild_config, qrz_client, guild, nEvents, file, exited, fnVars >>

\* one iteration of `for member in members`
MemberStep(r) ==
    /\ ~exited
    /\ runs[r].pc = "members"
    /\ runs[r].i <= Len(runs[r].members)
    /\ \E member \in { Roster[runs[r].members[runs[r].i]] } :
         \E lookup \in IF NeedsLookup(member, guild_config, qrz_client)
                       THEN LookupResults ELSE {LookupErr} :
           \E res \in { ProcessMember(member, guild_config, qrz_client, lookup) } :
             runs' = [runs EXCEPT
                    ![r].i = @ + 1,
                    ![r].entries = @ \o res.pushed,
                    ![r].owners = @ \o [k \in 1..Len(res.pushed) |-> member.id],
                    ![r].last = Iteration(member.id, res,
                                          res.looked_up # <<>> /\ lookup.ok)]
    /\ UNCHANGED << guild_config, qrz_client, guild, nEvents, file, exited, fetched, fnVars >>

\* after the loop over the members: "Deduplicate entries by callsign (keep
\* first occurrence)" and the info! line
DedupeEntries(r) ==
    /\ ~exited
    /\ runs[r].pc = "members"
    /\ runs[r].i > Len(runs[r].members)
    /\ \E d \in { Dedupe(runs[r].entries) } :
           runs' = [runs EXCEPT ![r].pc = "render",
                                ![r].unique_entries = d.unique_entries,
                                ![r].filtered = FilteredDuplicates(d),
                                \* `for entry in entries` consumes the vector
                                ![r].entries = <<>>,
                                ![r].owners = <<>>,
                                ![r].last = NoIteration]
    /\ UNCHANGED << guild_config, qrz_client, guild, nEvents, file, exited, fetched, fnVars >>

\* let content = generate_output_content(unique_entries, title)
Render(r) ==
    /\ ~exited
    /\ runs[r].pc = "render"
    /\ runs' = [runs EXCEPT
                  ![r].pc = "get_sha",
                  ![r].content = generate_output_content(runs[r].unique_entries,
                                                         guild_config.output.title),
                  \* unique_entries is moved into the call
                  ![r].unique_entries = <<>>,
                  ![r].filtered = 0]
    /\ UNCHANGED << guild_config, qrz_client, guild, nEvents, file, exited, fetched, fnVars >>

----------------------------------------------------------------------------
(* github.rs: commit_file *)

\* The blob SHA GitHub reports identifies the file's content.
ShaOf(content) == content

\* get_file_sha, and commit_file's match on it: an error (a missing file, a
\* failed request) is logged and leaves sha = None
GetFileSha(r) ==
    /\ ~exited
    /\ runs[r].pc = "get_sha"
    /\ \/ /\ IsSome(file)
          /\ runs' = [runs EXCEPT ![r].pc = "put", ![r].sha = Some(ShaOf(Unwrap(file)))]
       \/ runs' = [runs EXCEPT ![r].pc = "put", ![r].sha = None]
    /\ UNCHANGED << guild_config, qrz_client, guild, nEvents, file, exited, fetched, fnVars >>

\* GitHub accepts a PUT that creates the file, or that names the SHA the file has
PutAccepted(sha, held) ==
    IF IsSome(held) THEN sha = Some(ShaOf(Unwrap(held))) ELSE sha = None

\* the PUT and the check of its status; generate_member_list returns Ok(()) or,
\* through map_err(...)?, the error
PutFile(r) ==
    /\ ~exited
    /\ runs[r].pc = "put"
    /\ \/ /\ PutAccepted(runs[r].sha, file)
          /\ file' = Some(runs[r].content)
          /\ runs' = [runs EXCEPT ![r] = Returned(runs[r], "Ok")]
       \/ /\ file' = file
          /\ runs' = [runs EXCEPT ![r] = Returned(runs[r], "Err")]
    /\ UNCHANGED << guild_config, qrz_client, guild, nEvents, exited, fetched, fnVars >>

----------------------------------------------------------------------------
(* main.rs: the event handlers *)

\* EventHandler::ready: the configured guild's list is generated at startup
ready ==
    /\ ~exited
    /\ nEvents = 0
    /\ nEvents' = 1
    /\ runs' = [runs EXCEPT ![1] = StartedRun("ready")]
    /\ UNCHANGED << guild_config, qrz_client, guild, file, exited, fetched, fnVars >>

\* an event of a guild that get_guild_config does not know starts nothing
EventDelivered(trigger, configured) ==
    /\ ~exited
    /\ nEvents >= 1
    /\ nEvents < MaxEvents
    /\ nEvents' = nEvents + 1
    /\ runs' = IF configured
               THEN [runs EXCEPT ![nEvents + 1] = StartedRun(trigger)]
               ELSE runs

\* EventHandler::guild_member_addition
guild_member_addition(id, configured) ==
    /\ id # bot_user_id
    /\ id \notin Range(guild)
    /\ EventDelivered("addition", configured)
    /\ guild' = IF configured THEN Append(guild, id) ELSE guild
    /\ UNCHANGED << guild_config, qrz_client, file, exited, fetched, fnVars >>

\* EventHandler::guild_member_removal
guild_member_removal(id, configured) ==
    /\ id # bot_user_id
    /\ id \in Range(guild)
    /\ EventDelivered("removal", configured)
    /\ guild' = IF configured THEN SelectSeq(guild, LAMBDA m : m # id) ELSE guild
    /\ UNCHANGED << guild_config, qrz_client, file, exited, fetched, fnVars >>

\* EventHandler::guild_member_update: nothing is done unless `new` is Some
guild_member_update(new_is_some, configured) ==
    /\ EventDelivered("update", configured /\ new_is_some)
    /\ UNCHANGED << guild_config, qrz_client, guild, file, exited, fetched, fnVars >>

\* the handlers with every one of them exiting the process on Err
HandlerReturnAlwaysExit(r) ==
    /\ ~exited
    /\ runs[r].pc = "returned"
    /\ runs' = [runs EXCEPT ![r].pc = "done"]
    /\ exited' = (runs[r].result = "Err")
    /\ UNCHANGED << guild_config, qrz_client, guild, nEvents, file, fetched, fnVars >>

\* what a handler does with generate_member_list's result: ready exits the
\* process on Err, the other handlers log it
HandlerReturn(r) ==
    /\ ~exited
    /\ runs[r].pc = "returned"
    /\ runs' = [runs EXCEPT ![r].pc = "done"]
    /\ exited' = (runs[r].trigger = "ready" /\ runs[r].result = "Err")
    /\ UNCHANGED << guild_config, qrz_client, guild, nEvents, file, fetched, fnVars >>

RunStep(r) ==
    \/ FetchMembers(r)
    \/ MemberStep(r)
    \/ DedupeEntries(r)
    \/ Render(r)
    \/ GetFileSha(r)
    \/ PutFile(r)
    \/ HandlerReturn(r)

----------------------------------------------------------------------------
(* The bot: events arrive while earlier handlers are still running *)

\* the members Discord may report as joining
Joiners == {3}

Init ==
    /\ guild_config =
         [output |-> Output(StrSuffix, StrEmoji, Some(StrTitle)),
          overrides |-> (3 :> Override(Some(StrOvCallsign), None, None, None))]
    /\ qrz_client \in {None, Some("qrz")}
    /\ guild = <<0, 1>>
    /\ runs = [r \in RunIds |-> IdleRun]
    /\ nEvents = 0
    /\ file = None
    /\ exited = FALSE
    /\ fetched = None
    /\ FnOff

Next ==
    \/ ready
    \/ \E id \in Joiners, configured \in BOOLEAN : guild_member_addition(id, configured)
    \/ \E id \in MemberIds, configured \in BOOLEAN : guild_member_removal(id, configured)
    \/ \E new_is_some \in BOOLEAN, configured \in BOOLEAN :
          guild_member_update(new_is_some, configured)
    \/ \E r \in RunIds : RunStep(r)

Spec == Init /\ [][Next]_vars

\* The same bot in a guild that holds only the bot when it starts: the runs
\* are short, which leaves room for more events.
InitHandlers ==
    /\ guild_config =
         [output |-> Output(StrSuffix, StrEmoji, Some(StrTitle)),
          overrides |-> (3 :> Override(Some(StrOvCallsign), None, None, None))]
    /\ qrz_client = None
    /\ guild = <<0>>
    /\ runs = [r \in RunIds |-> IdleRun]
    /\ nEvents = 0
    /\ file = None
    /\ exited = FALSE
    /\ fetched = None
    /\ FnOff

SpecHandlers == InitHandlers /\ [][Next]_vars

----------------------------------------------------------------------------
(* The pipeline: one call of generate_member_list on any snapshot *)

\* the snapshots: up to MaxMembers distinct members, in any order
Snapshots == { q \in SeqsUpTo(MemberIds, MaxMembers) : Distinct(q) }

\* no override, or one rule, of any shape, for a member that parses (1) or for
\* one that does not (3)
OverrideConfigs ==
    { <<>> } \cup { (id :> rule) : id \in {1, 3}, rule \in OverrideRules }

InitPipeline ==
    /\ guild_config \in
         { [output |-> Output(StrSuffix, StrEmoji, None), overrides |-> o] :
             o \in OverrideConfigs }
    /\ qrz_client \in {None, Some("qrz")}
    /\ guild \in Snapshots
    /\ runs = [r \in RunIds |-> IF r = 1 THEN StartedRun("ready") ELSE IdleRun]
    /\ nEvents = 1
    /\ file = None
    /\ exited = FALSE
    /\ fetched = None
    /\ FnOff

NextPipeline == RunStep(1)

SpecPipeline == InitPipeline /\ [][NextPipeline]_vars

----------------------------------------------------------------------------
(* The pure functions: deduplication and rendering of any list of entries *)

\* a callsign that is a proper prefix of AA1AA
AA1A == <<"A", "A", "1", "A">>

\* entries that share callsigns and differ in their other fields
EntryPool ==
    { OutputEntry(W6JSV, <<"J", "a", "y">>, StrSuffix, StrEmoji),
      OutputEntry(W6JSV, W6JSV, <<>>, StrOvEmoji),
      OutputEntry(AA1AA, <<"A", "n", "n">>, <<>>, StrEmoji),
      OutputEntry(AA1A, StrAl, StrSuffix, StrEmoji),
      OutputEntry(KI7QCF, StrAl, <<>>, StrEmoji) }

\* a directory record's field: absent, empty, or the given string
FieldValues(str) == { None, Some(<<>>), Some(str) }

\* every shape of record lookup_callsign can return
InfoPool ==
    { CallsignInfo(fname, name, nickname) :
        fname \in FieldValues(StrJohn), name \in FieldValues(StrSmith),
        nickname \in FieldValues(Jay) }

\* the parse result the looked-up member had: "Al KI7QCF"
FnParsed == Unwrap(parse(StrAlKI7QCF))

\* the words the texts given to parse are made of
Words == { W6JSV, KI7QCF, Jay, <<"-">>, <<"(">> \o W6JSV \o <<")">> }

\* the words of q joined by single spaces
RECURSIVE JoinWords(_)
JoinWords(q) ==
    IF q = <<>> THEN <<>>
    ELSE IF Len(q) = 1 THEN q[1]
    ELSE q[1] \o <<" ">> \o JoinWords(Tail(q))

Texts == { JoinWords(q) : q \in SeqsUpTo(Words, MaxWords) }

\* the inputs: a list of entries and a title, or a directory record, or a text
InitFn ==
    /\ guild_config = [output |-> Output(StrSuffix, StrEmoji, None), overrides |-> <<>>]
    /\ qrz_client = None
    /\ guild = <<>>
    /\ runs = [r \in RunIds |-> IdleRun]
    /\ nEvents = 0
    /\ file = None
    /\ exited = FALSE
    /\ fetched = None
    /\ fn_dedupe = [seen_callsigns |-> {}, unique_entries |-> <<>>, filtered |-> 0]
    /\ fn_output = <<>>
    /\ fn_name = [chosen |-> None, name |-> <<>>]
    /\ fn_parsed = None
    /\ \/ /\ fn_pc = "input"
          /\ fn_entries \in SeqsUpTo(EntryPool, MaxEntries)
          /\ fn_title \in {None, Some(StrTitle)}
          /\ fn_info = CallsignInfo(None, None, None)
          /\ fn_text = <<>>
       \/ /\ fn_pc = "record"
          /\ fn_entries = <<>>
          /\ fn_title = None
          /\ fn_info \in InfoPool
          /\ fn_text = <<>>
       \/ /\ fn_pc = "text"
          /\ fn_entries = <<>>
          /\ fn_title = None
          /\ fn_info = CallsignInfo(None, None, None)
          /\ fn_text \in Texts

\* the deduplication loop and the count it reports, applied to fn_entries
FnDedupe ==
    /\ fn_pc = "input"
    /\ fn_pc' = "deduped"
    /\ \E d \in { Dedupe(fn_entries) } :
           fn_dedupe' = [seen_callsigns |-> d.seen_callsigns,
                         unique_entries |-> d.unique_entries,
                         filtered |-> FilteredDuplicates(d)]
    /\ UNCHANGED << botVars, fn_entries, fn_title, fn_output,
                    fn_info, fn_name, fn_text, fn_parsed >>

\* generate_output_content applied to fn_entries and fn_title
FnRender ==
    /\ fn_pc = "input"
    /\ fn_pc' = "rendered"
    /\ fn_output' = generate_output_content(fn_entries, fn_title)
    /\ UNCHANGED << botVars, fn_entries, fn_title, fn_dedupe,
                    fn_info, fn_name, fn_text, fn_parsed >>

\* get_display_name applied to fn_info, and the name of the entry pushed for a
\* parsed member whose lookup returned Ok(fn_info)
FnDisplayName ==
    /\ fn_pc = "record"
    /\ fn_pc' = "named"
    /\ fn_name' = [chosen |-> get_display_name(fn_info),
                   name |-> ParsedEntry(FnParsed, guild_config.output,
                                        Some("qrz"), LookupOk(fn_info)).name]
    /\ UNCHANGED << botVars, fn_entries, fn_title, fn_dedupe, fn_output,
                    fn_info, fn_text, fn_parsed >>

\* parse applied to fn_text
FnParse ==
    /\ fn_pc = "text"
    /\ fn_pc' = "parsed"
    /\ fn_parsed' = parse(fn_text)
    /\ UNCHANGED << botVars, fn_entries, fn_title, fn_dedupe, fn_output,
                    fn_info, fn_name, fn_text >>

NextFn == FnDedupe \/ FnRender \/ FnDisplayName \/ FnParse

SpecFn == InitFn /\ [][NextFn]_vars

----------------------------------------------------------------------------
(* Properties *)

ActiveRuns == { r \in RunIds : runs[r].pc \in ActivePcs }

\* C1: at most one execution of generate_member_list for the guild is active
\* at any time; a trigger arriving during a run does not start a second one.
C1_AtMostOneActiveRun == Cardinality(ActiveRuns) <= 1

\* the positions of fn_entries that hold the first entry of their callsign
FirstOccurrences ==
    { i \in 1..Len(fn_entries) :
        \A j \in 1..(i - 1) : fn_entries[j].callsign # fn_entries[i].callsign }

\* the k-th smallest element of a set of numbers
Nth(S, k) == CHOOSE i \in S : Cardinality({ j \in S : j <= i }) = k

\* C2: deduplication keeps, for each callsign, exactly the first entry carrying
\* it, in the input's order, so that no two kept entries share a callsign.
C2_DedupeKeepsFirst ==
    fn_pc = "deduped" =>
        /\ Len(fn_dedupe.unique_entries) = Cardinality(FirstOccurrences)
        /\ \A k \in 1..Len(fn_dedupe.unique_entries) :
              fn_dedupe.unique_entries[k] = fn_entries[Nth(FirstOccurrences, k)]
        /\ \A a, b \in 1..Len(fn_dedupe.unique_entries) :
              a # b => fn_dedupe.unique_entries[a].callsign
                          # fn_dedupe.unique_entries[b].callsign

\* a later entry of a callsign was dropped from between kept entries
C2_Witness ==
    /\ fn_pc = "deduped"
    /\ Len(fn_entries) = 3
    /\ fn_entries[1].callsign = fn_entries[2].callsign
    /\ fn_entries[1] # fn_entries[2]
    /\ fn_entries[3].callsign # fn_entries[1].callsign
    /\ fn_dedupe.unique_entries = << fn_entries[1], fn_entries[3] >>

\* C3: the duplicate count reported after deduplication equals the number of
\* entries removed: the input's length minus the unique list's length.
C3_ReportedCountIsRemoved ==
    fn_pc = "deduped" =>
        fn_dedupe.filtered = Len(fn_entries) - Len(fn_dedupe.unique_entries)

\* a <= b in byte-wise lexicographic order
LexLeq(a, b) ==
    \/ /\ Len(a) <= Len(b)
       /\ \A k \in 1..Len(a) : a[k] = b[k]
    \/ \E k \in 1..Len(a) :
          /\ k <= Len(b)
          /\ \A j \in 1..(k - 1) : a[j] = b[j]
          /\ Ord(a[k]) < Ord(b[k])

\* the lines of a text whose every line ends in a newline
RECURSIVE SplitLines(_)
SplitLines(text) ==
    IF text = <<>> THEN <<>>
    ELSE LET nl == CHOOSE i \in 1..Len(text) :
                      text[i] = "\n" /\ \A j \in 1..(i - 1) : text[j] # "\n"
         IN  << SubSeq(text, 1, nl - 1) >> \o SplitLines(SubSeq(text, nl + 1, Len(text)))

\* the part of a line before its first space
FirstToken(line) ==
    LET spaces == { i \in 1..Len(line) : line[i] = " " }
    IN  IF spaces = {} THEN line
        ELSE SubSeq(line, 1, (CHOOSE i \in spaces : \A j \in spaces : i <= j) - 1)

\* "{callsign} {emoji_separator} {name} {suffix}", without the newline
ExpectedLine(e) ==
    e.callsign \o <<" ">> \o e.emoji_separator \o <<" ">> \o e.name \o <<" ">> \o e.suffix

\* the entry lines of the rendered text: its lines after the title line
RenderedEntryLines ==
    LET lines == SplitLines(fn_output)
    IN  IF IsSome(fn_title) THEN Tail(lines) ELSE lines

\* how often x occurs in the sequence q
Count(q, x) == Cardinality({ k \in 1..Len(q) : q[k] = x })

\* C4: the entry lines are emitted in ascending lexicographic order of callsign
\* and are a permutation of the input entries, none added and none lost.
C4_SortedPermutation ==
    fn_pc = "rendered" =>
        /\ fn_output = <<>> \/ fn_output[Len(fn_output)] = "\n"
        /\ \A k \in 1..(Len(RenderedEntryLines) - 1) :
              LexLeq(FirstToken(RenderedEntryLines[k]),
                     FirstToken(RenderedEntryLines[k + 1]))
        /\ Len(RenderedEntryLines) = Len(fn_entries)
        /\ \A i \in 1..Len(fn_entries) :
              Count(RenderedEntryLines, ExpectedLine(fn_entries[i]))
                = Count([k \in 1..Len(fn_entries) |-> ExpectedLine(fn_entries[k])],
                        ExpectedLine(fn_entries[i]))

\* an input list given in descending order of callsign was rendered
C4_Witness ==
    /\ fn_pc = "rendered"
    /\ Len(fn_entries) = 3
    /\ \A k \in 1..2 :
          /\ fn_entries[k].callsign # fn_entries[k + 1].callsign
          /\ LexLeq(fn_entries[k + 1].callsign, fn_entries[k].callsign)

\* the position of entry i in the rendered order: after every entry of a
\* smaller callsign and every earlier entry of the same callsign
Rank(i) ==
    1 + Cardinality({ j \in 1..Len(fn_entries) :
            \/ /\ fn_entries[j].callsign # fn_entries[i].callsign
               /\ LexLeq(fn_entries[j].callsign, fn_entries[i].callsign)
            \/ /\ fn_entries[j].callsign = fn_entries[i].callsign
               /\ j < i })

\* the lines of entries Rank k, k + 1, ..., each ended by a newline
RECURSIVE ExpectedLinesFrom(_)
ExpectedLinesFrom(k) ==
    IF k > Len(fn_entries) THEN <<>>
    ELSE ExpectedLine(fn_entries[CHOOSE i \in 1..Len(fn_entries) : Rank(i) = k])
            \o <<"\n">> \o ExpectedLinesFrom(k + 1)

\* C5: the result is the line "# TITLE: {title}\n" exactly when a title is
\* given, then one line "{callsign} {emoji_separator} {name} {suffix}\n" per
\* entry, an empty suffix leaving a trailing space; it is the empty string for
\* no title and no entries.
C5_ExactFormat ==
    fn_pc = "rendered" =>
        /\ fn_output =
             (IF IsSome(fn_title)
              THEN <<"#", " ", "T", "I", "T", "L", "E", ":", " ">>
                      \o Unwrap(fn_title) \o <<"\n">>
              ELSE <<>>) \o ExpectedLinesFrom(1)
        /\ (~IsSome(fn_title) /\ fn_entries = <<>>) => fn_output = <<>>

\* a titled list holding an entry of empty suffix was rendered, its line ending
\* in a space and a newline
C5_Witness ==
    /\ fn_pc = "rendered"
    /\ IsSome(fn_title)
    /\ Len(fn_entries) = 2
    /\ fn_entries[1].suffix = <<>>
    /\ fn_entries[2].suffix # <<>>
    /\ \E k \in 2..Len(fn_output) : fn_output[k - 1] = " " /\ fn_output[k] = "\n"

\* run r is in the member loop and has completed an iteration
Iterating(r) == runs[r].pc = "members" /\ runs[r].last.id # -1

HasOverride(id) == id \in DOMAIN guild_config.overrides

\* the three candidates of each member, highest priority first, and what parse
\* makes of each present one
Candidates == [id \in MemberIds |->
    << Roster[id].nick, Roster[id].global_name, Some(Roster[id].name) >>]

CandidateParse == [id \in MemberIds |->
    [k \in 1..3 |-> IF IsSome(Candidates[id][k])
                    THEN parse(Unwrap(Candidates[id][k])) ELSE None]]

\* the candidates of a member that parse to a callsign
ParsingCandidates(id) == { k \in 1..3 : IsSome(CandidateParse[id][k]) }

Contributes(id) ==
    id # bot_user_id /\ (HasOverride(id) \/ ParsingCandidates(id) # {})

\* C7: a member with no override and no parsing name field contributes no
\* entry, the run goes on, the other members' entries are all there, and no
\* member contributes more than one.
C7_SkippedMemberLeavesOthers ==
    \A r \in RunIds :
        runs[r].pc = "members" =>
            /\ runs[r].owners =
                  SelectSeq(SubSeq(runs[r].members, 1, runs[r].i - 1), Contributes)
            /\ Len(runs[r].entries) = Len(runs[r].owners)
            /\ \A id \in MemberIds : Count(runs[r].owners, id) <= 1
            /\ runs[r].result = "none"
            /\ (runs[r].last.id # -1 /\ ~Contributes(runs[r].last.id)) =>
                  runs[r].last.pushed = <<>>

\* member 3, which has no callsign and no override, was skipped and a member
\* after it contributed its entry
C7_Witness ==
    /\ runs[1].pc = "members"
    /\ ~HasOverride(3)
    /\ \E a, b \in 1..(runs[1].i - 1) :
          /\ a < b
          /\ runs[1].members[a] = 3
          /\ runs[1].members[b] # bot_user_id
          /\ runs[1].owners = << runs[1].members[b] >>

\* C8: the candidates are tried in the order nickname, global name, account
\* name; the result is that of the first present candidate that parses, with
\* that candidate's string, and "unparsed" with the account name if none does.
C8_FirstParsingCandidate ==
    \A r \in RunIds :
        (Iterating(r) /\ runs[r].last.id # bot_user_id) =>
            LET l == runs[r].last
                ok == ParsingCandidates(l.id)
            IN  IF ok = {}
                THEN l.parsed = None /\ l.display_name = Roster[l.id].name
                ELSE LET k == CHOOSE m \in ok : \A o \in ok : m <= o
                     IN  /\ l.parsed = CandidateParse[l.id][k]
                         /\ l.display_name = Unwrap(Candidates[l.id][k])

\* member 5, whose nickname and global name both parse, was resolved by its
\* nickname
C8_Witness ==
    /\ Iterating(1)
    /\ runs[1].last.id = 5
    /\ ParsingCandidates(5) = {1, 2}
    /\ Unwrap(runs[1].last.parsed).callsign = AA1AA
    /\ Unwrap(CandidateParse[5][2]).callsign = KI7QCF
    /\ runs[1].last.display_name = StrAA1AAParens

\* C9: the directory lookup is made for a member only when a lookup client
\* exists and the member parsed and no override name is present, and it is made
\* with the member's parsed callsign.
C9_LookupOnlyWhenAllowed ==
    \A r \in RunIds :
        (Iterating(r) /\ runs[r].last.looked_up # <<>>) =>
            LET l == runs[r].last
            IN  /\ IsSome(qrz_client)
                /\ ParsingCandidates(l.id) # {}
                /\ ~(HasOverride(l.id) /\ IsSome(guild_config.overrides[l.id].name))
                /\ l.looked_up = << Unwrap(l.parsed).callsign >>

\* a lookup was made, for KI7QCF, the callsign of member 2
C9_Witness ==
    /\ Iterating(1)
    /\ runs[1].last.id = 2
    /\ runs[1].last.looked_up = << KI7QCF >>

\* C10: when the lookup for a member fails, the member's entry is still
\* pushed, with the parsed name, the run has not failed, and the loop goes on
\* to the remaining members.
C10_LookupErrorKeepsName ==
    \A r \in RunIds :
        (Iterating(r) /\ runs[r].last.looked_up # <<>> /\ ~runs[r].last.lookup_ok) =>
            LET l == runs[r].last
            IN  /\ Len(l.pushed) = 1
                /\ l.pushed[1].name = Unwrap(l.parsed).name
                /\ l.pushed[1].callsign = Unwrap(l.parsed).callsign
                /\ runs[r].entries # <<>>
                /\ runs[r].entries[Len(runs[r].entries)] = l.pushed[1]
                /\ runs[r].result = "none"
                /\ runs[r].members[runs[r].i - 1] = l.id
                /\ IF runs[r].i <= Len(runs[r].members)
                   THEN ENABLED MemberStep(r)
                   ELSE ENABLED DedupeEntries(r)

\* the lookup for member 1 failed, its entry is named Jay, and members remain
C10_Witness ==
    /\ Iterating(1)
    /\ runs[1].last.id = 1
    /\ runs[1].last.looked_up = << W6JSV >>
    /\ ~runs[1].last.lookup_ok
    /\ runs[1].last.pushed[1].name = <<"J", "a", "y">>
    /\ runs[1].i <= Len(runs[1].members)

\* a field of a directory record that is present and not empty
Usable(field) == IsSome(field) /\ Unwrap(field) # <<>>

\* C11: the name chosen from a directory record is the nickname if present and
\* non-empty, else the first name if present and non-empty, else the full name
\* if present and non-empty; when none is, no name is chosen and the entry
\* keeps the name computed before the lookup.
C11_DisplayNamePriority ==
    fn_pc = "named" =>
        /\ fn_name.chosen =
              IF Usable(fn_info.nickname) THEN fn_info.nickname
              ELSE IF Usable(fn_info.fname) THEN fn_info.fname
              ELSE IF Usable(fn_info.name) THEN fn_info.name
              ELSE None
        /\ fn_name.name =
              IF IsSome(fn_name.chosen) THEN Unwrap(fn_name.chosen)
              ELSE FnParsed.name

\* a record with an empty nickname, a first name and a full name gave John
C11_Witness ==
    /\ fn_pc = "named"
    /\ fn_info = CallsignInfo(Some(StrJohn), Some(StrSmith), Some(<<>>))
    /\ fn_name.name = StrJohn
    /\ FnParsed.name = StrAl

\* s with its first occurrence of pat, if any, removed
RemoveFirst(s, pat) ==
    LET at == { i \in 1..Len(s) : StartsWithAt(s, i, pat) }
    IN  IF at = {} THEN s
        ELSE LET i == CHOOSE m \in at : \A o \in at : m <= o
             IN  SubSeq(s, 1, i - 1) \o SubSeq(s, i + Len(pat), Len(s))

\* C13: parse takes the leftmost callsign-shaped token as the callsign and
\* derives the name by removing only the first occurrence of that token from
\* the text, then stripping separators and trimming, so that a later occurrence
\* of the same callsign stays in the name; an empty name becomes the callsign.
C13_RemovesFirstOccurrenceOnly ==
    fn_pc = "parsed" =>
        LET m == callsign_regex_find(fn_text)
        IN  IF ~IsSome(m) THEN fn_parsed = None
            ELSE LET callsign == SubSeq(fn_text, Unwrap(m)[1],
                                        Unwrap(m)[1] + Unwrap(m)[2] - 1)
                     name == StripSeparators(RemoveFirst(fn_text, callsign))
                 IN  fn_parsed = Some([callsign |-> callsign,
                                       name |-> IF name = <<>> THEN callsign
                                                ELSE name])

\* C14: a member with an override rule is never looked up in the directory,
\* whatever fields the rule sets; when the rule sets no name, the member's name
\* fields parse and a lookup client exists, the entry's name is the parsed name.
C14_OverrideExcludesLookup ==
    \A r \in RunIds :
        (Iterating(r) /\ runs[r].last.id # bot_user_id /\ HasOverride(runs[r].last.id)) =>
            LET l == runs[r].last
                ov == guild_config.overrides[l.id]
            IN  /\ l.looked_up = <<>>
                /\ ~l.lookup_ok
                /\ (~IsSome(ov.name) /\ ParsingCandidates(l.id) # {}
                      /\ IsSome(qrz_client)) =>
                        /\ Len(l.pushed) = 1
                        /\ l.pushed[1].name =
                              Unwrap(CandidateParse[l.id][
                                  CHOOSE k \in ParsingCandidates(l.id) :
                                      \A o \in ParsingCandidates(l.id) : k <= o]).name

\* member 1, "W6JSV - Jay", has an override that sets only a suffix, a lookup
\* client exists, and its entry is named Jay without any lookup
C14_Witness ==
    /\ Iterating(1)
    /\ runs[1].last.id = 1
    /\ IsSome(qrz_client)
    /\ HasOverride(1)
    /\ guild_config.overrides[1] = Override(None, None, Some(StrOvSuffix), None)
    /\ runs[1].last.looked_up = <<>>
    /\ runs[1].last.pushed[1].name = <<"J", "a", "y">>
    /\ runs[1].last.pushed[1].callsign = W6JSV

\* the run started by ready has failed and its handler has acted on it
ReadyRunFailed ==
    \E r \in RunIds :
        runs[r].trigger = "ready" /\ runs[r].pc = "done" /\ runs[r].result = "Err"

\* run r was started by a member event, failed, and its handler has returned
EventRunFailed(r) ==
    /\ runs[r].trigger \in {"addition", "removal", "update"}
    /\ runs[r].pc = "done"
    /\ runs[r].result = "Err"

\* C12: the process terminates exactly when the run started by ready fails; a
\* failed run started by a member event is only logged, and the process still
\* handles the events that follow (as long as the model delivers events).
C12_FailureHandledByTrigger ==
    /\ exited <=> ReadyRunFailed
    /\ \A r \in RunIds :
          (EventRunFailed(r) /\ ~ReadyRunFailed) =>
              /\ ~exited
              /\ nEvents < MaxEvents =>
                    /\ ENABLED guild_member_update(TRUE, TRUE)
                    /\ \A id \in Joiners \ Range(guild) :
                          ENABLED guild_member_addition(id, TRUE)
                    /\ \A id \in Range(guild) \ {bot_user_id} :
                          ENABLED guild_member_removal(id, TRUE)
              /\ \A q \in RunIds :
                    runs[q].pc \in ActivePcs \cup {"returned"} => ENABLED RunStep(q)

\* the run of the second event failed, the process went on, and the run of the
\* third event has committed the list
C12_Witness ==
    /\ ~exited
    /\ EventRunFailed(2)
    /\ runs[3].pc = "done"
    /\ runs[3].result = "Ok"
    /\ IsSome(file)

\* the entry lists the member loop can produce from snapshot q, one for each
\* way the directory can answer
RECURSIVE EntryLists(_)
EntryLists(q) ==
    IF q = <<>> THEN { <<>> }
    ELSE { ProcessMember(Roster[Head(q)], guild_config, qrz_client, lookup).pushed
               \o rest :
             lookup \in IF NeedsLookup(Roster[Head(q)], guild_config, qrz_client)
                        THEN LookupResults ELSE {LookupErr},
             rest \in EntryLists(Tail(q)) }

\* the renderings of snapshot q
Renderings(q) ==
    { generate_output_content(Dedupe(e).unique_entries, guild_config.output.title) :
        e \in EntryLists(q) }

\* every run that was started has returned to its handler
AllRunsCompleted ==
    /\ \A r \in RunIds : runs[r].pc \in {"idle", "done"}
    /\ \E r \in RunIds : runs[r].pc = "done"

\* C15: once all runs have completed (each with Ok), the file the sink holds is
\* a rendering of the most recently fetched snapshot; a run that fetched an
\* older snapshot has not overwritten the output of one that fetched a newer.
C15_LatestSnapshotCommitted ==
    (AllRunsCompleted /\ \A r \in RunIds : runs[r].pc = "done" => runs[r].result = "Ok") =>
        /\ IsSome(fetched)
        /\ IsSome(file)
        /\ Unwrap(file) \in Renderings(Unwrap(fetched))

====
